---- MODULE Spec2Model ----
(***************************************************************************)
(* Model of overlay.py: the Florida county / branch overlay map generator. *)
(*                                                                         *)
(* main() runs get_florida_counties, geocode_branches (which calls         *)
(* geocode_address once per branch), create_map and save, in that order.   *)
(* External collaborators (the HTTP download, the shapefile reader, the    *)
(* geocoding service, the renderer) answer nondeterministically.           *)
(* Time is the sum of the time.sleep() calls, in seconds.                  *)
(***************************************************************************)
EXTENDS Integers, Sequences, FiniteSets, TLC

\* ------------------------------------------------------------------ bounds

\* Number of branches in the registry that are modelled.
NumBranches == 3
\* Largest retry limit geocode_address is called with directly.
MaxRetries == 4

\* ------------------------------------------------------- program constants

\* geocode_address(address, geolocator, max_retries=3)
DefaultMaxRetries == 3
\* time.sleep(1) after a "not found" answer
NotFoundDelay == 1
\* time.sleep(1) after every branch in geocode_branches
RateLimitDelay == 1

\* ------------------------------------------------------------ Python values

\* A Python value that is either None or a float.
None == [isNone |-> TRUE, val |-> 0]
Float(v) == [isNone |-> FALSE, val |-> v]
\* The coordinates the service answers: 0.0 and one non-zero value, the two
\* cases the code tells apart.
Coords == {Float(0), Float(1)}

\* Python truthiness of None / float: None and 0.0 are falsy.
Truthy(x) == ~x.isNone /\ x.val # 0

\* The answers of geolocator.geocode(address, timeout=10):
\*   located    a Location object (always truthy) with latitude, longitude
\*   not_found  None
\*   transient  raises GeocoderTimedOut / GeocoderServiceError
\*   permanent  raises any other exception
Located(lat, lon) == [kind |-> "located", latitude |-> lat, longitude |-> lon]
NotFound == [kind |-> "not_found", latitude |-> None, longitude |-> None]
Transient == [kind |-> "transient", latitude |-> None, longitude |-> None]
Permanent == [kind |-> "permanent", latitude |-> None, longitude |-> None]
Responses ==
    {Located(lat, lon) : lat \in Coords, lon \in Coords}
        \cup {NotFound, Transient, Permanent}

\* get_fortiline_branches(): the static registry.
Branches ==
    [b \in 1..NumBranches |-> [name |-> <<"name", b>>, address |-> <<"address", b>>]]

RECURSIVE Sum(_)
Sum(s) == IF s = <<>> THEN 0 ELSE Head(s) + Sum(Tail(s))

Last(s) == s[Len(s)]

\* -------------------------------------------------------------------- state

VARIABLES
    pc,               \* position of main()
    outcome,          \* "running", "returned" (normal return) or "raised"
    temp_file,        \* temp_counties.zip exists on disk
    florida_counties, \* get_florida_counties() has returned the GeoDataFrame
    i,                \* 1-based index of the branch geocode_branches is at
    branch_locations, \* the list geocode_branches builds
    gpc,              \* geocode_address: "idle", "running", "returned", "raised"
    max_retries,      \* geocode_address's max_retries argument
    address,          \* geocode_address's address argument
    attempt,          \* geocode_address's loop variable
    result,           \* geocode_address's return value <<lat, lon>>
    responses,        \* the service's answers to this call's lookups, in order
    delays,           \* the time.sleep() calls made inside this call, in order
    clock,            \* total time slept so far
    lastLookupAt,     \* clock value when the latest lookup was issued
    totalLookups,     \* lookups issued in the whole run
    located,          \* branches for which the service answered "located"
    rendered,         \* create_map has been invoked
    output_file       \* fortiline_florida_map.html exists on disk

mainVars == <<pc, outcome, temp_file, florida_counties, rendered, output_file>>
batchVars == <<i, branch_locations>>
callVars == <<gpc, max_retries, address, attempt, result, responses, delays>>
timeVars == <<clock, lastLookupAt, totalLookups, located>>
vars == <<mainVars, batchVars, callVars, timeVars>>

\* ------------------------------------------------------- geocode_address

\* for attempt in range(max_retries)
AttemptInRangeOffByOne(a, R) == a <= R
AttemptInRange(a, R) == a < R

\* if attempt < max_retries - 1
HasRetryLeftAlways(a, R) == a < R
HasRetryLeft(a, R) == a < R - 1

\* time.sleep(2 ** attempt)
BackoffConstant(a) == 1
Backoff(a) == 2 ^ a

\* The loop moves on to iteration a; past the range it falls out to
\* "return None, None".
NextIteration(a) ==
    /\ attempt' = a
    /\ gpc' = IF AttemptInRange(a, max_retries) THEN "running" ELSE "returned"
    /\ result' = <<None, None>>

\* One iteration of the retry loop: one lookup and the handling of its answer.
Lookup(resp) ==
    /\ gpc = "running"
    /\ responses' = Append(responses, resp)
    /\ lastLookupAt' = clock
    /\ totalLookups' = totalLookups + 1
    /\ IF resp.kind = "located"
       THEN /\ gpc' = "returned"
            /\ result' = <<resp.latitude, resp.longitude>>
            /\ located' = Append(located,
                    [name |-> <<"name", address[2]>>, address |-> address,
                     latitude |-> resp.latitude, longitude |-> resp.longitude])
            /\ UNCHANGED <<attempt, delays, clock>>
       ELSE IF resp.kind = "not_found"
       THEN /\ delays' = Append(delays, NotFoundDelay)
            /\ clock' = clock + NotFoundDelay
            /\ NextIteration(attempt + 1)
            /\ UNCHANGED located
       ELSE IF resp.kind = "transient"
       THEN IF HasRetryLeft(attempt, max_retries)
            THEN /\ delays' = Append(delays, Backoff(attempt))
                 /\ clock' = clock + Backoff(attempt)
                 /\ NextIteration(attempt + 1)
                 /\ UNCHANGED located
            ELSE /\ gpc' = "returned"
                 /\ result' = <<None, None>>
                 /\ UNCHANGED <<attempt, delays, clock, located>>
       ELSE /\ gpc' = "raised"
            /\ UNCHANGED <<attempt, result, delays, clock, located>>
    /\ UNCHANGED <<max_retries, address>>
    /\ UNCHANGED <<mainVars, batchVars>>

\* ------------------------------------------------------ geocode_branches

\* if lat and lon
KeepAlways(lat, lon) == TRUE
Keep(lat, lon) == Truthy(lat) /\ Truthy(lon)

\* time.sleep(1) at the end of the loop body, whether the branch was kept or not
InterRequestDelayOnFailureOnly(kept) == IF kept THEN 0 ELSE RateLimitDelay
InterRequestDelay(kept) == RateLimitDelay

\* lat, lon = geocode_address(branch["address"], geolocator)
CallGeocode ==
    /\ pc = "geocode_branches"
    /\ gpc = "idle"
    /\ i <= NumBranches
    /\ address' = Branches[i].address
    /\ max_retries' = DefaultMaxRetries
    /\ responses' = <<>>
    /\ delays' = <<>>
    /\ NextIteration(0)
    /\ UNCHANGED <<mainVars, batchVars, timeVars>>

\* The rest of the loop body once geocode_address has returned.
RecordBranch ==
    /\ pc = "geocode_branches"
    /\ gpc = "returned"
    /\ branch_locations' =
            IF Keep(result[1], result[2])
            THEN Append(branch_locations,
                    [name |-> Branches[i].name, address |-> Branches[i].address,
                     latitude |-> result[1], longitude |-> result[2]])
            ELSE branch_locations
    /\ clock' = clock + InterRequestDelay(Keep(result[1], result[2]))
    /\ i' = i + 1
    /\ gpc' = "idle"
    /\ UNCHANGED <<max_retries, address, attempt, result, responses, delays>>
    /\ UNCHANGED <<mainVars, lastLookupAt, totalLookups, located>>

\* ----------------------------------------------------- get_florida_counties

\* requests.get, raise_for_status and the chunked write of temp_counties.zip.
DownloadCounties(r) ==
    /\ pc = "counties_download"
    /\ temp_file' = IF r = "request_failed" THEN temp_file ELSE TRUE
    /\ pc' = IF r = "ok" THEN "counties_read" ELSE "except"
    /\ UNCHANGED <<outcome, florida_counties, rendered, output_file>>
    /\ UNCHANGED <<batchVars, callVars, timeVars>>

\* gpd.read_file, the STATEFP filter, to_crs and the removal of the temp file.
ReadCounties(ok) ==
    /\ pc = "counties_read"
    /\ temp_file' = IF ok THEN FALSE ELSE temp_file
    /\ florida_counties' = ok
    /\ pc' = IF ok THEN "geocode_branches" ELSE "except"
    /\ UNCHANGED <<outcome, rendered, output_file>>
    /\ UNCHANGED <<batchVars, callVars, timeVars>>

\* --------------------------------------------------------------------- main

\* if not branch_locations
NoBranchesNever(list) == FALSE
NoBranches(list) == list = <<>>

\* geocode_branches returns; main tests its result.
CheckLocations ==
    /\ pc = "geocode_branches"
    /\ gpc = "idle"
    /\ i > NumBranches
    /\ IF NoBranches(branch_locations)
       THEN pc' = "done" /\ outcome' = "returned"
       ELSE pc' = "create_map" /\ UNCHANGED outcome
    /\ UNCHANGED <<temp_file, florida_counties, rendered, output_file>>
    /\ UNCHANGED <<batchVars, callVars, timeVars>>

CreateMap(ok) ==
    /\ pc = "create_map"
    /\ rendered' = TRUE
    /\ pc' = IF ok THEN "save" ELSE "except"
    /\ UNCHANGED <<outcome, temp_file, florida_counties, output_file>>
    /\ UNCHANGED <<batchVars, callVars, timeVars>>

\* florida_map.save(output_file); a failed save may leave a partial file.
SaveMap(ok, partial) ==
    /\ pc = "save"
    /\ output_file' = (ok \/ partial)
    /\ pc' = IF ok THEN "done" ELSE "except"
    /\ outcome' = IF ok THEN "returned" ELSE outcome
    /\ UNCHANGED <<temp_file, florida_counties, rendered>>
    /\ UNCHANGED <<batchVars, callVars, timeVars>>

\* except Exception as e: ... raise
MainExcept ==
    /\ \/ pc = "except"
       \/ pc = "geocode_branches" /\ gpc = "raised"
    /\ pc' = "done"
    /\ outcome' = "raised"
    /\ UNCHANGED <<temp_file, florida_counties, rendered, output_file>>
    /\ UNCHANGED <<batchVars, callVars, timeVars>>

\* ----------------------------------------------------------- specifications

Init ==
    /\ pc = "counties_download"
    /\ outcome = "running"
    /\ temp_file = FALSE
    /\ florida_counties = FALSE
    /\ i = 1
    /\ branch_locations = <<>>
    /\ gpc = "idle"
    /\ max_retries = DefaultMaxRetries
    /\ address = <<"address", 0>>
    /\ attempt = 0
    /\ result = <<None, None>>
    /\ responses = <<>>
    /\ delays = <<>>
    /\ clock = 0
    /\ lastLookupAt = 0
    /\ totalLookups = 0
    /\ located = <<>>
    /\ rendered = FALSE
    /\ output_file = FALSE

Next ==
    \/ \E r \in {"ok", "request_failed", "interrupted"} : DownloadCounties(r)
    \/ \E ok \in BOOLEAN : ReadCounties(ok)
    \/ CallGeocode
    \/ \E resp \in Responses : Lookup(resp)
    \/ RecordBranch
    \/ CheckLocations
    \/ \E ok \in BOOLEAN : CreateMap(ok)
    \/ \E ok \in BOOLEAN, partial \in BOOLEAN : SaveMap(ok, partial)
    \/ MainExcept

Spec == Init /\ [][Next]_vars

\* geocode_address called on its own, with any retry limit 1..MaxRetries.
InitRetry ==
    /\ pc = "geocode_address"
    /\ outcome = "running"
    /\ temp_file = FALSE
    /\ florida_counties = FALSE
    /\ i = 1
    /\ branch_locations = <<>>
    /\ gpc = "running"
    /\ max_retries \in 1..MaxRetries
    /\ address = <<"address", 1>>
    /\ attempt = 0
    /\ result = <<None, None>>
    /\ responses = <<>>
    /\ delays = <<>>
    /\ clock = 0
    /\ lastLookupAt = 0
    /\ totalLookups = 0
    /\ located = <<>>
    /\ rendered = FALSE
    /\ output_file = FALSE

NextRetry == \E resp \in Responses : Lookup(resp)

SpecRetry == InitRetry /\ [][NextRetry]_vars

\* ------------------------------------------------------------------- claims

AllTransient(s) == \A j \in 1..Len(s) : s[j] = Transient
NoAnswer(s) == \A j \in 1..Len(s) : s[j] \in {Transient, NotFound}
Front(s) == SubSeq(s, 1, Len(s) - 1)
AllTimedOut == <<Transient, Transient, Transient>>

\* C1: when the service raises a transient error on the first k < R lookups
\* and answers "located" on lookup k+1, geocode_address keeps retrying through
\* the k errors, returns that answer's (latitude, longitude), has issued
\* exactly k+1 lookups, and has slept 1 + 2 + ... + 2^(k-1) = 2^k - 1 in total
\* (0 when k = 0).
C1_TransientThenSuccess ==
    /\ (AllTransient(responses) /\ Len(responses) < max_retries)
            => gpc = "running"
    /\ (/\ responses # <<>>
        /\ Last(responses).kind = "located"
        /\ AllTransient(Front(responses)))
            => /\ Len(responses) - 1 < max_retries
               /\ gpc = "returned"
               /\ result = <<Last(responses).latitude, Last(responses).longitude>>
               /\ totalLookups = Len(responses)
               /\ Sum(delays) = 2 ^ (Len(responses) - 1) - 1
               /\ clock = Sum(delays)

C1_Witness ==
    /\ gpc = "returned"
    /\ Len(responses) = 3
    /\ AllTransient(Front(responses))
    /\ Last(responses).kind = "located"
    /\ Sum(delays) = 3

\* C2: geocode_address never issues more than R lookups; when each of the
\* lookups is answered by a transient error or by "not found", it goes on
\* until R lookups have been issued and then returns the failure marker.
C2_ExhaustsExactlyR ==
    /\ totalLookups <= max_retries
    /\ NoAnswer(responses)
            => IF Len(responses) < max_retries
               THEN gpc = "running"
               ELSE /\ gpc = "returned"
                    /\ result = <<None, None>>
                    /\ totalLookups = max_retries

C2_Witness ==
    /\ gpc = "returned"
    /\ max_retries >= 3
    /\ totalLookups = max_retries
    /\ NoAnswer(responses)
    /\ \E j \in 1..Len(responses) : responses[j] = NotFound
    /\ \E j \in 1..Len(responses) : responses[j] = Transient

\* C3 as stated: with the default limit 3, an address whose three lookups all
\* time out has slept the delays 1, 2 and 4 when geocode_address reports it
\* as failed.
C3_DelaysOneTwoFour ==
    (pc = "geocode_branches" /\ gpc = "returned" /\ responses = AllTimedOut)
        => delays = <<1, 2, 4>>

\* C3 amended: with the default limit 3, an address whose three lookups all
\* time out has slept the delays 1 and 2 (after the first and the second
\* failed attempt, none after the third) when geocode_address reports it as
\* failed; geocode_branches then leaves the list as it was, so the address is
\* not in it and the entries already in it stay.
C3_DelaysOneTwoThenExcluded ==
    /\ [](responses = AllTimedOut
            => /\ gpc \in {"returned", "idle"}
               /\ result = <<None, None>>
               /\ delays = <<1, 2>>
               /\ \A k \in 1..Len(branch_locations) :
                    branch_locations[k].address # address)
    /\ [][(gpc = "returned" /\ responses = AllTimedOut)
            => branch_locations' = branch_locations]_vars

C3_Witness ==
    /\ pc = "geocode_branches"
    /\ gpc = "idle"
    /\ responses = AllTimedOut
    /\ delays = <<1, 2>>
    /\ i = NumBranches + 1
    /\ Len(branch_locations) = NumBranches - 1

\* C4 as stated: no per-address failure ends the batch: geocode_address never
\* propagates an error, and once the boundaries are loaded the run does not
\* end before every branch has been geocoded.
C4_PerAddressFailureNonFatal ==
    /\ gpc # "raised"
    /\ (florida_counties /\ pc \in {"except", "done"}) => i > NumBranches

\* C5 as stated: when geocode_branches returns an empty list, the run ends in
\* the failure outcome, not in a normal return.
C5_ZeroSuccessesSignalsFailure ==
    (pc = "done" /\ florida_counties /\ i > NumBranches /\ branch_locations = <<>>)
        => outcome = "raised"

\* C6: create_map is invoked only after the boundary fetch succeeded and
\* geocode_branches returned a non-empty list; the output file is written only
\* after create_map was invoked; and no lookup is issued unless the boundary
\* fetch succeeded.
C6_RenderOnlyAfterBoundariesAndBranches ==
    /\ rendered => (florida_counties /\ i > NumBranches /\ branch_locations # <<>>)
    /\ output_file => rendered
    /\ ~florida_counties => totalLookups = 0

C6_Witness ==
    /\ pc = "done"
    /\ outcome = "returned"
    /\ output_file
    /\ Len(branch_locations) = 1

\* C7: every entry of branch_locations has a non-null latitude and a non-null
\* longitude.
C7_NoNullCoordinates ==
    \A k \in 1..Len(branch_locations) :
        /\ ~branch_locations[k].latitude.isNone
        /\ ~branch_locations[k].longitude.isNone

C7_Witness ==
    /\ pc = "geocode_branches"
    /\ gpc = "idle"
    /\ result = <<None, None>>
    /\ responses # <<>>
    /\ branch_locations # <<>>
    /\ Len(branch_locations) < i - 1

\* C8: when the first lookup of a branch other than the first is about to be
\* issued, at least 1 time unit has been slept since the last lookup of the
\* branch before it.
C8_RateLimitBetweenBranches ==
    (pc = "geocode_branches" /\ gpc = "running" /\ attempt = 0 /\ i > 1)
        => clock >= lastLookupAt + 1

C8_Witness ==
    /\ pc = "geocode_branches"
    /\ gpc = "running"
    /\ attempt = 0
    /\ i = 2
    /\ totalLookups = 1
    /\ clock = lastLookupAt + 1

\* C9 as stated: temp_counties.zip does not exist when the run has ended.
C9_TempFileDeleted == pc = "done" => ~temp_file

\* C10 as stated: between two calls of geocode_address, branch_locations is
\* exactly the branches the service located, in input order, with the
\* coordinates it answered.
C10_ExactlyTheLocatedBranches ==
    (pc \in {"geocode_branches", "create_map", "save", "done"} /\ gpc = "idle")
        => branch_locations = located

====
